---- MODULE Spec2Model ----
(***************************************************************************)
(* A model of secret-storage-lite: the typed Map / Set / Queue containers  *)
(* over an abstract byte-oriented key-value store.                         *)
(*                                                                         *)
(* Bytes are integers 0..255, byte strings are sequences of bytes.  An     *)
(* unsigned 32-bit integer is a pair <<hi, lo>> of 16-bit limbs (its value *)
(* is hi * 2^16 + lo), so that the counters keep their width: the          *)
(* arithmetic below reports every overflow and underflow of the 32 bits.   *)
(***************************************************************************)
EXTENDS Integers, Sequences, FiniteSets, TLC

(***************************************************************************)
(* Bounds of the model.                                                    *)
(***************************************************************************)
\* the largest capacity requested from Queue::with_capacity in Spec
MaxCapacity == 3
\* the values pushed or saved are 0..MaxValue
MaxValue == 1
\* the number of successful push_back calls a behaviour of Spec records
MaxPushes == 5

\* SpecWrap begins with head = tail at most this far below the largest counter
MaxLead == 2

\* update is not called when it would store a value above this
MaxStored == 11

Values == 0..MaxValue

(***************************************************************************)
(* Option and Result.                                                      *)
(***************************************************************************)
None == <<"None">>
Some(v) == <<"Some", v>>
Ok(v) == <<"Ok", v>>
Err(e) == <<"Err", e>>
IsOk(r) == r[1] = "Ok"
IsErr(r) == r[1] = "Err"

(***************************************************************************)
(* Unsigned 32-bit arithmetic on <<hi, lo>> limbs.                         *)
(***************************************************************************)
Limb == 256 * 256
U32_ZERO == <<0, 0>>
U32_ONE == <<0, 1>>
U32_MAX == <<Limb - 1, Limb - 1>>
U32Set == (0..(Limb - 1)) \X (0..(Limb - 1))

\* a small natural number as a u32, and back (for values below 2^16)
U32Of(n) == <<n \div Limb, n % Limb>>
NatOf(u) == u[1] * Limb + u[2]
IsSmall(u) == u[1] = 0

u32_lt(a, b) == a[1] < b[1] \/ (a[1] = b[1] /\ a[2] < b[2])
u32_ge(a, b) == ~u32_lt(a, b)

\* a + b in 32 bits: the wrapped sum and whether it overflowed
u32_add(a, b) ==
    LET lo == a[2] + b[2]
        hi == a[1] + b[1] + (lo \div Limb)
    IN  [val |-> <<hi % Limb, lo % Limb>>, overflow |-> hi >= Limb]

\* a - b in 32 bits: the wrapped difference and whether it underflowed
u32_sub(a, b) ==
    LET borrow == IF a[2] < b[2] THEN 1 ELSE 0
        lo == a[2] + borrow * Limb - b[2]
        hi == a[1] - b[1] - borrow
    IN  [val |-> <<(hi + Limb) % Limb, lo>>, overflow |-> hi < 0]

\* u32::abs_diff
u32_abs_diff(a, b) == IF u32_lt(a, b) THEN u32_sub(b, a).val ELSE u32_sub(a, b).val

\* a % c for c > 0.  A modulus of 2^31 or more is at most one subtraction
\* away; below that, a = 2 * half + bit is reduced in plain integers, none
\* of which reaches 2^31.
u32_rem(a, c) ==
    IF c[1] >= Limb \div 2
    THEN (IF u32_lt(a, c) THEN a ELSE u32_sub(a, c).val)
    ELSE LET n == NatOf(c)
             half == (a[1] * (Limb \div 2)) + (a[2] \div 2)
             bit == a[2] % 2
             m == half % n
             dbl == IF m >= n - m THEN m - (n - m) ELSE m + m
             r == IF dbl + bit = n THEN 0 ELSE dbl + bit
         IN  U32Of(r)

\* u32::to_be_bytes and u32::from_be_bytes
to_be_bytes(u) == <<u[1] \div 256, u[1] % 256, u[2] \div 256, u[2] % 256>>
from_be_bytes(b) == <<b[1] * 256 + b[2], b[3] * 256 + b[4]>>

(***************************************************************************)
(* The host store (Storage::get / set / remove): a function from the byte  *)
(* keys that are present to the bytes stored there.                        *)
(***************************************************************************)
EmptyStore == [k \in {} |-> <<>>]
store_get(st, k) == IF k \in DOMAIN st THEN Some(st[k]) ELSE None
store_set(st, k, bytes) == [x \in (DOMAIN st) \cup {k} |-> IF x = k THEN bytes ELSE st[x]]
store_remove(st, k) == [x \in (DOMAIN st) \ {k} |-> st[x]]

(***************************************************************************)
(* The value codec (JSON): an unsigned integer is written as its decimal   *)
(* digits in ASCII; parsing accepts exactly such digit strings.            *)
(***************************************************************************)
Digit0 == 48
RECURSIVE to_vec(_)
to_vec(v) == IF v < 10 THEN <<Digit0 + v>> ELSE Append(to_vec(v \div 10), Digit0 + (v % 10))

\* a value of a type whose serialization fails, and the values that serialize
NotSerializable == -1
Serializable(v) == v >= 0

IsDigit(b) == b >= Digit0 /\ b < Digit0 + 10
RECURSIVE DigitsValue(_)
DigitsValue(b) ==
    IF b = <<>> THEN 0
    ELSE 10 * DigitsValue(SubSeq(b, 1, Len(b) - 1)) + (b[Len(b)] - Digit0)
from_slice(b) ==
    IF /\ Len(b) >= 1
       /\ \A i \in 1..Len(b) : IsDigit(b[i])
       /\ (Len(b) > 1 => b[1] # Digit0)
    THEN Ok(DigitsValue(b))
    ELSE Err("ParseError")

\* may_deserialize / must_deserialize of what Storage::get returned
may_deserialize(got) ==
    IF got = None THEN Ok(None)
    ELSE LET r == from_slice(got[2]) IN IF IsOk(r) THEN Ok(Some(r[2])) ELSE r
must_deserialize(got) ==
    IF got = None THEN Err("NotFound") ELSE from_slice(got[2])

(***************************************************************************)
(* Key composition.  A key is the sequence of its segments, each a byte    *)
(* string; an integer segment is its big-endian bytes at its fixed width.  *)
(***************************************************************************)
\* the two-byte big-endian length that prefixes a non-final segment
encode_length(seg) == <<Len(seg) \div 256, Len(seg) % 256>>

\* an encoding that length-prefixes every segment, the last one too
RECURSIVE encode_segments_all_prefixed(_)
encode_segments_all_prefixed(segs) ==
    IF Len(segs) = 0 THEN <<>>
    ELSE encode_length(segs[1]) \o segs[1] \o encode_segments_all_prefixed(Tail(segs))

RECURSIVE encode_segments(_)
encode_segments(segs) ==
    IF Len(segs) = 0 THEN <<>>
    ELSE IF Len(segs) = 1 THEN segs[1]
    ELSE encode_length(segs[1]) \o segs[1] \o encode_segments(Tail(segs))

\* Path::new: the namespace is the first, length-prefixed, segment
Path_new(namespace, segs) == encode_length(namespace) \o namespace \o encode_segments(segs)

\* the segments of a u8 key and of a u32 key
u8_key(n) == << <<n>> >>
u32_key(u) == << to_be_bytes(u) >>

(***************************************************************************)
(* Path: the typed operations on one resolved byte key.  Each returns the  *)
(* store it leaves and its result.                                         *)
(***************************************************************************)
\* to_vec(data)? comes before Storage::set: a value that does not serialize
\* leaves the store as it was
Path_save(st, path, data) ==
    IF Serializable(data)
    THEN [store |-> store_set(st, path, to_vec(data)), result |-> Ok(<<>>)]
    ELSE [store |-> st, result |-> Err("SerializeError")]
Path_remove(st, path) == store_remove(st, path)
Path_load(st, path) == must_deserialize(store_get(st, path))
Path_may_load(st, path) == may_deserialize(store_get(st, path))
Path_has(st, path) == store_get(st, path) # None

\* the caller's actions of update: add_ten of the tests, and one that fails
UpdateActions == {"add_ten", "fail"}
unwrap_or_default(opt) == IF opt = None THEN 0 ELSE opt[2]
apply_action(action, opt) ==
    IF action = "add_ten" THEN Ok(unwrap_or_default(opt) + 10)
    ELSE Err("ActionError")
\* the actions of update_or_default take the value itself
apply_default_action(action, value) ==
    IF action = "add_ten" THEN Ok(value + 10)
    ELSE Err("ActionError")

Path_update(st, path, action) ==
    LET input == Path_may_load(st, path)
    IN  IF IsErr(input) THEN [store |-> st, result |-> input, seen |-> <<"NotCalled">>]
        ELSE LET output == apply_action(action, input[2])
             IN  IF IsErr(output) THEN [store |-> st, result |-> output, seen |-> input[2]]
                 ELSE [store |-> Path_save(st, path, output[2]).store,
                       result |-> output, seen |-> input[2]]

Path_update_or_default(st, path, action) ==
    LET loaded == Path_may_load(st, path)
    IN  IF IsErr(loaded) THEN [store |-> st, result |-> loaded, seen |-> <<"NotCalled">>]
        ELSE LET input == unwrap_or_default(loaded[2])
                 output == apply_default_action(action, input)
             IN  IF IsErr(output) THEN [store |-> st, result |-> output, seen |-> Some(input)]
                 ELSE [store |-> Path_save(st, path, output[2]).store,
                       result |-> output, seen |-> Some(input)]

(***************************************************************************)
(* Map: a namespace; every operation derives the Path of the key and       *)
(* forwards to it.                                                         *)
(***************************************************************************)
Map_new(namespace) == [namespace |-> namespace]
Map_namespace(m) == m.namespace
\* a key made of the namespace and the plain concatenation of the segments
RECURSIVE Flatten(_)
Flatten(segs) == IF segs = <<>> THEN <<>> ELSE Head(segs) \o Flatten(Tail(segs))
Map_key_concatenated(m, k) == Path_new(m.namespace, <<Flatten(k)>>)
Map_key(m, k) == Path_new(m.namespace, k)
\* a save that length-prefixes every segment of the key, the last one too
Map_save_all_prefixed(m, st, k, data) ==
    Path_save(st, Path_new(m.namespace, Append(k, <<>>)), data)
Map_save(m, st, k, data) == Path_save(st, Map_key(m, k), data)
\* a remove that blanks the value instead of deleting the key
Map_remove_blanking(m, st, k) == store_set(st, Map_key(m, k), <<>>)
Map_remove(m, st, k) == Path_remove(st, Map_key(m, k))
Map_load(m, st, k) == Path_load(st, Map_key(m, k))
Map_may_load(m, st, k) == Path_may_load(st, Map_key(m, k))
\* a has that asks whether a value can be loaded
Map_has_loadable(m, st, k) == IsOk(Path_load(st, Map_key(m, k)))
Map_has(m, st, k) == Path_has(st, Map_key(m, k))
\* an update that hands the action the value or its default, never None
Map_update_defaulting(m, st, k, action) == Path_update_or_default(st, Map_key(m, k), action)
Map_update(m, st, k, action) == Path_update(st, Map_key(m, k), action)
Map_update_or_default(m, st, k, action) == Path_update_or_default(st, Map_key(m, k), action)

(***************************************************************************)
(* Queue: a capacity (the slot count, one more than the capacity asked     *)
(* for) and a Map<u32, T> of the slots; head and tail live in the store.   *)
(* An operation that does arithmetic returns, with its value, whether any  *)
(* 32-bit operation in it overflowed: a build with overflow checks panics  *)
(* there (checked), another build goes on with the wrapped value.          *)
(***************************************************************************)
HEAD == <<95, 104, 101, 97, 100>>
TAIL == <<95, 116, 97, 105, 108>>
Panic == <<"Panic">>

\* a construction that keeps the capacity asked for as the slot count
Queue_with_capacity_no_sentinel(namespace, capacity) ==
    IF capacity = U32_ZERO THEN Panic
    ELSE IF capacity = U32_MAX THEN Panic
    ELSE [capacity |-> capacity, map |-> Map_new(namespace)]

\* a construction that also refuses u32::MAX - 1, the capacity Queue::new asks for
Queue_with_capacity_strict(namespace, capacity) ==
    IF capacity = U32_ZERO THEN Panic
    ELSE IF u32_ge(capacity, u32_sub(U32_MAX, U32_ONE).val) THEN Panic
    ELSE [capacity |-> u32_add(capacity, U32_ONE).val, map |-> Map_new(namespace)]

Queue_with_capacity(namespace, capacity) ==
    IF capacity = U32_ZERO THEN Panic
    ELSE IF capacity = U32_MAX THEN Panic
    ELSE [capacity |-> u32_add(capacity, U32_ONE).val, map |-> Map_new(namespace)]

Queue_new(namespace) == Queue_with_capacity(namespace, u32_sub(U32_MAX, U32_ONE).val)

Queue_namespace(q) == Map_namespace(q.map)

Queue_max_capacity(q) == u32_sub(q.capacity, U32_ONE)

\* the key with_namespace_suffix hands to its closure
with_namespace_suffix(q, suffix) == Queue_namespace(q) \o suffix

load_u32(st, namespace) ==
    LET got == store_get(st, namespace)
    IN  IF got # None /\ Len(got[2]) = 4 THEN from_be_bytes(got[2]) ELSE U32_ZERO

save_u32(st, namespace, u) == store_set(st, namespace, to_be_bytes(u))

Queue_head(q, st) == load_u32(st, with_namespace_suffix(q, HEAD))
Queue_tail(q, st) == load_u32(st, with_namespace_suffix(q, TAIL))

\* a length whose wrapped branch adds before it subtracts: capacity + tail - head
determine_len_add_first(q, head, tail) ==
    IF u32_ge(tail, head)
    THEN [val |-> u32_abs_diff(tail, head), overflow |-> FALSE]
    ELSE LET a == u32_add(q.capacity, tail)
             b == u32_sub(a.val, head)
         IN  [val |-> b.val, overflow |-> a.overflow \/ b.overflow]

\* a length whose wrapped branch counts from max_capacity instead of capacity
determine_len_short(q, head, tail) ==
    IF u32_ge(tail, head)
    THEN [val |-> u32_abs_diff(tail, head), overflow |-> FALSE]
    ELSE LET a == u32_sub(u32_sub(q.capacity, U32_ONE).val, head)
             b == u32_add(a.val, tail)
         IN  [val |-> b.val, overflow |-> a.overflow \/ b.overflow]

determine_len(q, head, tail) ==
    IF u32_ge(tail, head)
    THEN [val |-> u32_abs_diff(tail, head), overflow |-> FALSE]
    ELSE LET a == u32_sub(q.capacity, head)
             b == u32_add(a.val, tail)
         IN  [val |-> b.val, overflow |-> a.overflow \/ b.overflow]

\* a fullness test that lets the ring fill all of its slots
determine_is_full_whole_ring(q, head, tail) ==
    LET l == determine_len(q, head, tail)
    IN  [val |-> (l.val = q.capacity), overflow |-> l.overflow]

determine_is_full(q, head, tail) ==
    LET l == determine_len(q, head, tail)
        m == Queue_max_capacity(q)
    IN  [val |-> (l.val = m.val), overflow |-> l.overflow \/ m.overflow]

Queue_len(q, st) == determine_len(q, Queue_head(q, st), Queue_tail(q, st))

\* a free capacity counted from the slot count instead of max_capacity()
Queue_free_capacity_of_slots(q, st) ==
    LET l == Queue_len(q, st)
        d == u32_sub(q.capacity, l.val)
    IN  [val |-> d.val, overflow |-> l.overflow \/ d.overflow]

Queue_free_capacity(q, st) ==
    LET m == Queue_max_capacity(q)
        l == Queue_len(q, st)
        d == u32_sub(m.val, l.val)
    IN  [val |-> d.val, overflow |-> m.overflow \/ l.overflow \/ d.overflow]

Queue_is_full(q, st) == determine_is_full(q, Queue_head(q, st), Queue_tail(q, st))

\* a counter that is advanced without the reduction modulo capacity
inc_counter_unreduced(q, counter) ==
    LET s == u32_add(counter, U32_ONE)
    IN  [val |-> s.val, overflow |-> s.overflow]

\* the counter after (counter + 1) % capacity, and whether the + overflowed
inc_counter(q, counter) ==
    LET s == u32_add(counter, U32_ONE)
    IN  [val |-> u32_rem(s.val, q.capacity), overflow |-> s.overflow]

\* an inc_head that saves the advanced head under the tail key
inc_head_at_tail_key(q, st, head) ==
    LET n == inc_counter(q, head)
    IN  [store |-> save_u32(st, with_namespace_suffix(q, TAIL), n.val), overflow |-> n.overflow]

inc_head(q, st, head) ==
    LET n == inc_counter(q, head)
    IN  [store |-> save_u32(st, with_namespace_suffix(q, HEAD), n.val), overflow |-> n.overflow]

\* an inc_tail that reads the tail again instead of using the one it was given
inc_tail_reread(q, st, tail) ==
    LET n == inc_counter(q, Queue_tail(q, st))
    IN  [store |-> save_u32(st, with_namespace_suffix(q, TAIL), n.val), overflow |-> n.overflow]

inc_tail(q, st, tail) ==
    LET n == inc_counter(q, tail)
    IN  [store |-> save_u32(st, with_namespace_suffix(q, TAIL), n.val), overflow |-> n.overflow]

\* a push_back that writes the slot before it looks whether the queue is full
push_back_write_first(q, st, t, checked) ==
    LET tail == load_u32(st, Map_namespace(q.map) \o TAIL)
        head == load_u32(st, Map_namespace(q.map) \o HEAD)
        saved == Map_save(q.map, st, u32_key(tail), t)
        len == IF u32_ge(tail, head) THEN u32_abs_diff(tail, head)
               ELSE u32_add(u32_sub(q.capacity, head).val, tail).val
        next == u32_rem(u32_add(tail, U32_ONE).val, q.capacity)
    IN  IF len = u32_sub(q.capacity, U32_ONE).val
        THEN [store |-> saved.store, result |-> Ok(FALSE), overflow |-> FALSE]
        ELSE [store |-> save_u32(saved.store, Map_namespace(q.map) \o TAIL, next),
              result |-> Ok(TRUE), overflow |-> FALSE]

\* a push_back that saves the element one slot past tail
push_back_past_tail(q, st, t, checked) ==
    LET tail == Queue_tail(q, st)
        head == Queue_head(q, st)
        full == determine_is_full(q, head, tail)
        saved == Map_save(q.map, st, u32_key(inc_counter(q, tail).val), t)
        inced == inc_tail(q, saved.store, tail)
    IN  IF full.val THEN [store |-> st, result |-> Ok(FALSE), overflow |-> full.overflow]
        ELSE [store |-> inced.store, result |-> Ok(TRUE),
              overflow |-> full.overflow \/ inced.overflow]

\* push_back: the store it leaves, its result, and whether arithmetic overflowed
push_back(q, st, t, checked) ==
    LET tail == Queue_tail(q, st)
        head == Queue_head(q, st)
        full == determine_is_full(q, head, tail)
        saved == Map_save(q.map, st, u32_key(tail), t)
        inced == inc_tail(q, saved.store, tail)
    IN  IF full.overflow /\ checked THEN [store |-> st, result |-> Panic, overflow |-> TRUE]
        ELSE IF full.val THEN [store |-> st, result |-> Ok(FALSE), overflow |-> full.overflow]
        ELSE IF IsErr(saved.result)
             THEN [store |-> saved.store, result |-> saved.result, overflow |-> full.overflow]
        ELSE IF inced.overflow /\ checked
             THEN [store |-> saved.store, result |-> Panic, overflow |-> TRUE]
        ELSE [store |-> inced.store, result |-> Ok(TRUE),
              overflow |-> full.overflow \/ inced.overflow]

\* a pop_front that deletes the slot it has read
pop_front_removing(q, st, checked) ==
    LET tail == Queue_tail(q, st)
        head == Queue_head(q, st)
        popped == Map_may_load(q.map, st, u32_key(head))
        inced == inc_head(q, Map_remove(q.map, st, u32_key(head)), head)
    IN  IF tail = head THEN [store |-> st, result |-> Ok(None), overflow |-> FALSE]
        ELSE IF IsErr(popped) THEN [store |-> st, result |-> popped, overflow |-> FALSE]
        ELSE [store |-> inced.store, result |-> popped, overflow |-> inced.overflow]

\* a pop_front that steps over a slot it cannot parse: it advances head and
\* returns the error
pop_front_skipping(q, st, checked) ==
    LET tail == Queue_tail(q, st)
        head == Queue_head(q, st)
        loaded == Map_may_load(q.map, st, u32_key(head))
        inced == inc_head(q, st, head)
    IN  IF tail = head THEN [store |-> st, result |-> Ok(None), overflow |-> FALSE]
        ELSE [store |-> inced.store, result |-> loaded, overflow |-> inced.overflow]

\* pop_front: the store it leaves, its result, and whether arithmetic overflowed
pop_front(q, st, checked) ==
    LET tail == Queue_tail(q, st)
        head == Queue_head(q, st)
        popped == Map_may_load(q.map, st, u32_key(head))
        inced == inc_head(q, st, head)
    IN  IF tail = head THEN [store |-> st, result |-> Ok(None), overflow |-> FALSE]
        ELSE IF IsErr(popped) THEN [store |-> st, result |-> popped, overflow |-> FALSE]
        ELSE IF inced.overflow /\ checked THEN [store |-> st, result |-> Panic, overflow |-> TRUE]
        ELSE [store |-> inced.store, result |-> popped, overflow |-> inced.overflow]

\* the byte keys push_back and pop_front hand to the store
push_back_touches(q, st) ==
    LET tail == Queue_tail(q, st)
        head == Queue_head(q, st)
    IN  {with_namespace_suffix(q, TAIL), with_namespace_suffix(q, HEAD)} \cup
        (IF determine_is_full(q, head, tail).val THEN {} ELSE {Map_key(q.map, u32_key(tail))})

pop_front_touches(q, st) ==
    LET tail == Queue_tail(q, st)
        head == Queue_head(q, st)
    IN  {with_namespace_suffix(q, TAIL), with_namespace_suffix(q, HEAD)} \cup
        (IF tail = head THEN {} ELSE {Map_key(q.map, u32_key(head))})

(***************************************************************************)
(* The reference bounded FIFO of the tests (Model): a sequence of values   *)
(* and its maximal length.                                                 *)
(***************************************************************************)
Model_new(max) == [max |-> max, q |-> <<>>]
Model_push(m, i) ==
    IF U32Of(Len(m.q)) = m.max THEN [model |-> m, result |-> FALSE]
    ELSE [model |-> [m EXCEPT !.q = Append(m.q, i)], result |-> TRUE]
Model_pop(m) ==
    IF m.q = <<>> THEN [model |-> m, result |-> None]
    ELSE [model |-> [m EXCEPT !.q = Tail(m.q)], result |-> Some(Head(m.q))]
Model_len(m) == U32Of(Len(m.q))
Model_free_capacity(m) == u32_sub(m.max, U32Of(Len(m.q))).val
Model_is_full(m) == U32Of(Len(m.q)) = m.max

(***************************************************************************)
(* State.                                                                  *)
(***************************************************************************)
VARIABLES
    store,       \* the host store
    queue,       \* the Queue descriptor (constant after construction)
    requested,   \* the capacity given to Queue::with_capacity
    model,       \* the reference FIFO the tests run beside the queue
    ret,         \* the last call: its operation, argument and result
    overflowed,  \* whether 32-bit arithmetic overflowed in the last call
    pushed,      \* the values of the push_back calls that returned true, in order
    popped,      \* the values the pop_front calls returned, in order
    start,       \* the value head and tail had when the behaviour began
    map,         \* the Map descriptor
    path,        \* the Path a caller obtained from Map::key and kept
    shadow,      \* for each key of the Map, what was last written there
    touched,     \* the byte keys the queue and the map have read or written
    calls        \* for each caller, the push_back or pop_front it is in the middle of

vars == <<store, queue, requested, model, ret, overflowed, pushed, popped, start,
          map, path, shadow, touched, calls>>
\* what a whole call on the Queue leaves alone
mvars == <<map, path, shadow, calls>>

TEST_NS == <<116, 101, 115, 116>>

NoCall == [op |-> "none"]
NoPath == [key |-> <<>>, bytes |-> <<>>]
NoKeys == [k \in {} |-> <<>>]
Untouched == [queue |-> {}, map |-> {}]

\* the callers of the queue, and a caller that is in no call
Callers == {"a", "b"}
NoResult == <<"NoResult">>
IdleCall == [op |-> "none", pc |-> "idle", arg |-> 0, tail |-> U32_ZERO, head |-> U32_ZERO,
             got |-> Ok(None), result |-> NoResult]
NoCalls == [p \in Callers |-> IdleCall]

\* the state after Queue::with_capacity(ns, n) beside an empty store (setup_queue)
InitQueue(n) ==
    /\ requested = n
    /\ queue = Queue_with_capacity(TEST_NS, n)
    /\ store = EmptyStore
    /\ model = Model_new(n)
    /\ ret = NoCall
    /\ overflowed = FALSE
    /\ pushed = <<>>
    /\ popped = <<>>
    /\ start = U32_ZERO
    /\ map = queue.map
    /\ path = NoPath
    /\ shadow = NoKeys
    /\ touched = Untouched
    /\ calls = NoCalls

Init == \E n \in 1..MaxCapacity : InitQueue(U32Of(n))

\* one step of impl_matches_model: Op::Push(v) on the queue and on the model
PushBack(v) ==
    /\ Len(pushed) < MaxPushes
    /\ \E checked \in BOOLEAN :
          LET r == push_back(queue, store, v, checked)
              m == Model_push(model, v)
          IN  /\ store' = r.store
              /\ model' = m.model
              /\ ret' = [op |-> "push_back", arg |-> v, result |-> r.result,
                         model_res |-> Ok(m.result)]
              /\ overflowed' = r.overflow
              /\ pushed' = IF r.result = Ok(TRUE) THEN Append(pushed, v) ELSE pushed
    /\ touched' = [touched EXCEPT !.queue = @ \cup push_back_touches(queue, store)]
    /\ UNCHANGED <<queue, requested, popped, start, mvars>>

\* one step of impl_matches_model: Op::Pop on the queue and on the model
PopFront ==
    /\ \E checked \in BOOLEAN :
          LET r == pop_front(queue, store, checked)
              m == Model_pop(model)
          IN  /\ store' = r.store
              /\ model' = m.model
              /\ ret' = [op |-> "pop_front", arg |-> 0, result |-> r.result,
                         model_res |-> Ok(m.result)]
              /\ overflowed' = r.overflow
              /\ popped' = IF IsOk(r.result) /\ r.result[2] # None
                           THEN Append(popped, r.result[2][2]) ELSE popped
    /\ touched' = [touched EXCEPT !.queue = @ \cup pop_front_touches(queue, store)]
    /\ UNCHANGED <<queue, requested, pushed, start, mvars>>

Next ==
    \/ \E v \in Values : PushBack(v)
    \/ PopFront

Spec == Init /\ [][Next]_vars

(***************************************************************************)
(* C1: on Queue::with_capacity(ns, N) over an empty store, every push_back *)
(* and pop_front returns what the same call returns on the reference       *)
(* bounded FIFO of size N, and after every call len, free_capacity and     *)
(* is_full are the reference's length, N minus its length, and whether its *)
(* length is N.                                                            *)
(***************************************************************************)
C1_MatchesModel ==
    /\ ret.op # "none" => ret.result = ret.model_res
    /\ Queue_len(queue, store).val = Model_len(model)
    /\ Queue_free_capacity(queue, store).val = Model_free_capacity(model)
    /\ Queue_is_full(queue, store).val = Model_is_full(model)

\* a pop returned a value from a queue whose tail has wrapped around the ring
C1_Witness ==
    /\ ret.op = "pop_front"
    /\ ret.result = ret.model_res
    /\ ret.result[2] # None
    /\ Len(pushed) > NatOf(queue.capacity)
    /\ Len(model.q) > 0

(***************************************************************************)
(* C2: max_capacity() is the capacity given to with_capacity and is the    *)
(* number of elements that fit: from the empty queue exactly N pushes      *)
(* return true and the next returns false; the pops return the pushed      *)
(* values in push order, and the queue is empty (len = 0) exactly when     *)
(* every pushed value has been popped.                                     *)
(***************************************************************************)
Held == Len(pushed) - Len(popped)

C2_CapacityIsUsable ==
    /\ Queue_max_capacity(queue).val = requested
    /\ ret.op = "push_back" =>
          /\ ret.result \in {Ok(TRUE), Ok(FALSE)}
          /\ ret.result = Ok(TRUE) => Held <= NatOf(requested)
          /\ ret.result = Ok(FALSE) => Held = NatOf(requested)
    /\ Len(popped) <= Len(pushed)
    /\ popped = SubSeq(pushed, 1, Len(popped))
    /\ (Queue_len(queue, store).val = U32_ZERO) <=> (popped = pushed)

\* N pushes onto the empty queue of the largest capacity, a rejected push
\* being possible only then, and N pops have emptied it again
C2_Witness ==
    /\ requested = U32Of(MaxCapacity)
    /\ ret.op = "pop_front"
    /\ Len(pushed) = MaxCapacity
    /\ popped = pushed
    /\ Queue_len(queue, store).val = U32_ZERO

(***************************************************************************)
(* C3: push_back on a full queue returns Ok(false) and pop_front on an     *)
(* empty queue returns Ok(None), and neither writes any key of the store:  *)
(* head, tail and every slot hold the bytes they held before the call.     *)
(***************************************************************************)
C3_BoundaryCallsWriteNothing ==
    [][ /\ (ret'.op = "push_back" /\ Held = NatOf(requested)) =>
              (ret'.result = Ok(FALSE) /\ store' = store)
        /\ (ret'.op = "pop_front" /\ Held = 0) =>
              (ret'.result = Ok(None) /\ store' = store) ]_vars

\* a push was rejected by a full queue whose ring had been popped from before
C3_Witness ==
    /\ ret.op = "push_back"
    /\ ret.result = Ok(FALSE)
    /\ Len(popped) > 0
    /\ Held = NatOf(requested)

(***************************************************************************)
(* The queue of maximal capacity near the 32-bit boundary                  *)
(* (invariant_max_capacity_queue_wraps_around): Queue::new, with head and  *)
(* tail saved at the same counter value at or just below u32::MAX - 1.     *)
(***************************************************************************)
U32_MAX_MINUS_1 == u32_sub(U32_MAX, U32_ONE).val

\* counter values of a queue near both ends of its range [0, capacity)
CounterSamples(q) ==
    { x \in {U32Of(n) : n \in 0..MaxLead} \cup
            {u32_sub(q.capacity, U32Of(n)).val : n \in 1..(MaxLead + 1)} :
        u32_lt(x, q.capacity) }

\* the test's setup, and a head and a tail in range for Probe to work on
InitWrap ==
    \E lead \in 0..MaxLead :
        LET h == u32_sub(U32_MAX_MINUS_1, U32Of(lead)).val
        IN  /\ requested = U32_MAX_MINUS_1
            /\ queue = Queue_new(TEST_NS)
            /\ store = save_u32(save_u32(EmptyStore, TEST_NS \o TAIL, h), TEST_NS \o HEAD, h)
            /\ model = Model_new(U32_MAX_MINUS_1)
            /\ \E ph \in CounterSamples(queue) : \E pt \in CounterSamples(queue) :
                  ret = [op |-> "none", head |-> ph, tail |-> pt]
            /\ overflowed = FALSE
            /\ pushed = <<>>
            /\ popped = <<>>
            /\ start = h
            /\ map = queue.map
            /\ path = NoPath
            /\ shadow = NoKeys
            /\ touched = Untouched
            /\ calls = NoCalls

\* determine_len and the two increments applied to the counters drawn
Probe ==
    /\ ret.op = "none"
    /\ ret' = [op |-> "probe", head |-> ret.head, tail |-> ret.tail,
               len |-> determine_len(queue, ret.head, ret.tail),
               next_head |-> inc_counter(queue, ret.head),
               next_tail |-> inc_counter(queue, ret.tail)]
    /\ UNCHANGED <<store, queue, requested, model, overflowed, pushed, popped, start,
                   mvars, touched>>

NextWrap ==
    \/ \E v \in Values : PushBack(v)
    \/ PopFront
    \/ Probe

SpecWrap == InitWrap /\ [][NextWrap]_vars

\* a counter in [0, c) as an integer congruent to it modulo c, small in size
Off(c, x) == IF IsSmall(x) THEN NatOf(x) ELSE 0 - NatOf(u32_sub(c, x).val)
\* the integer d, -c < d < c, reduced modulo c
Reduce(c, d) == IF d >= 0 THEN U32Of(d) ELSE u32_sub(c, U32Of(0 - d)).val
\* (t - h) mod c, (x + k) mod c for k < c
MathLen(c, h, t) == Reduce(c, Off(c, t) - Off(c, h))
MathAdvance(c, x, k) ==
    LET o == Off(c, x) + k
    IN  IF o >= 0 /\ IsSmall(c) THEN U32Of(o % NatOf(c)) ELSE Reduce(c, o)

(***************************************************************************)
(* C4: on the queue of maximal capacity with head = tail = 2^32 - 2, two   *)
(* pushes leave tail = 1 and len = 2 and two pops return the two values in *)
(* push order and leave head = 1 and len = 0; and for head and tail in     *)
(* range, the increments and the len formula never overflow or underflow   *)
(* 32 bits and equal (x + 1) mod capacity and (tail - head) mod capacity.  *)
(***************************************************************************)
C4_WrapsAround ==
    /\ ~overflowed
    /\ Queue_len(queue, store) = [val |-> U32Of(Held), overflow |-> FALSE]
    /\ Queue_tail(queue, store) = MathAdvance(queue.capacity, start, Len(pushed))
    /\ Queue_head(queue, store) = MathAdvance(queue.capacity, start, Len(popped))
    /\ (start = U32_MAX_MINUS_1 /\ Len(pushed) = 2) => Queue_tail(queue, store) = U32_ONE
    /\ (start = U32_MAX_MINUS_1 /\ Len(popped) = 2) => Queue_head(queue, store) = U32_ONE
    /\ popped = SubSeq(pushed, 1, Len(popped))
    /\ ret.op \in {"push_back", "pop_front"} => ret.result # Panic
    /\ ret.op = "probe" =>
          /\ ret.len = [val |-> MathLen(queue.capacity, ret.head, ret.tail), overflow |-> FALSE]
          /\ ret.next_head = [val |-> MathAdvance(queue.capacity, ret.head, 1), overflow |-> FALSE]
          /\ ret.next_tail = [val |-> MathAdvance(queue.capacity, ret.tail, 1), overflow |-> FALSE]

\* the end of the test: from head = tail = 2^32 - 2, two pushes and two pops
C4_Witness ==
    /\ start = U32_MAX_MINUS_1
    /\ ret.op = "pop_front"
    /\ Len(pushed) = 2
    /\ popped = pushed
    /\ Queue_tail(queue, store) = U32_ONE
    /\ Queue_head(queue, store) = U32_ONE
    /\ Queue_len(queue, store).val = U32_ZERO

(***************************************************************************)
(* The Maps of the tests over an empty store: PEOPLE (one byte-string      *)
(* segment), ALLOWANCE (two) and TRIPLE (a byte string, a u8, a string),   *)
(* each with keys of its shape.                                            *)
(***************************************************************************)
PEOPLE == <<112, 101, 111, 112, 108, 101>>
ALLOWANCE == <<97, 108, 108, 111, 119>>
TRIPLE == <<116, 114, 105, 112, 108, 101>>

John == << <<106, 111, 104, 110>> >>
Jack == << <<106, 97, 99, 107>> >>
OwnerSpender == << <<111, 119, 110, 101, 114>>, <<115, 112, 101, 110, 100, 101, 114>> >>
OwnersPender == << <<111, 119, 110, 101, 114, 115>>, <<112, 101, 110, 100, 101, 114>> >>
AbC == << <<97, 98>>, <<99>> >>
ABc == << <<97>>, <<98, 99>> >>
OwnerTenRecipient ==
    << <<111, 119, 110, 101, 114>>, <<10>>, <<114, 101, 99, 105, 112, 105, 101, 110, 116>> >>
OwnersTenEcipient ==
    << <<111, 119, 110, 101, 114, 115>>, <<10>>, <<101, 99, 105, 112, 105, 101, 110, 116>> >>
OwnerSTenRecipient ==
    << <<111, 119, 110, 101, 114>>, <<115>>, <<10, 114, 101, 99, 105, 112, 105, 101, 110, 116>> >>
OwnersTenRecipient ==
    << <<111, 119, 110, 101, 114, 115>>, <<10>>, <<114, 101, 99, 105, 112, 105, 101, 110, 116>> >>

\* each Map with the keys a behaviour uses on it
MapUses ==
    { [namespace |-> PEOPLE, keys |-> {John, Jack}],
      [namespace |-> ALLOWANCE, keys |-> {OwnerSpender, OwnersPender}],
      [namespace |-> ALLOWANCE, keys |-> {AbC, ABc}],
      [namespace |-> TRIPLE, keys |-> {OwnerTenRecipient, OwnersTenEcipient}],
      [namespace |-> TRIPLE, keys |-> {OwnerSTenRecipient, OwnersTenRecipient}] }

\* bytes the tests write under a key without the codec: "random-data", and nothing
RANDOM_DATA == <<114, 97, 110, 100, 111, 109, 45, 100, 97, 116, 97>>
RawBytes == {RANDOM_DATA, <<>>}

Absent == <<"absent">>
Stored(v) == <<"value", v>>
Raw(b) == <<"raw", b>>

Keys == DOMAIN shadow

\* a small queue, which the Map behaviours leave alone
IdleQueue ==
    /\ requested = U32_ONE
    /\ queue = Queue_with_capacity(TEST_NS, U32_ONE)
    /\ model = Model_new(U32_ONE)
    /\ overflowed = FALSE
    /\ pushed = <<>>
    /\ popped = <<>>
    /\ start = U32_ZERO

InitMap ==
    \E use \in MapUses :
        /\ IdleQueue
        /\ store = EmptyStore
        /\ map = Map_new(use.namespace)
        /\ path = NoPath
        /\ shadow = [k \in use.keys |-> Absent]
        /\ ret = NoCall
        /\ touched = Untouched
        /\ calls = NoCalls

\* what a call on the Map leaves alone
qvars == <<queue, requested, model, overflowed, pushed, popped, start, calls>>

Touch(k) == touched' = [touched EXCEPT !.map = @ \cup {Map_key(map, k)}]

\* what a caller sees of key k in store st: load, may_load and has
Observe(st, k) == <<Map_load(map, st, k), Map_may_load(map, st, k), Map_has(map, st, k)>>

\* what a writing call on k found: what was last written at k, and what
\* the caller saw of every other key before the call
Found(k) == [was |-> shadow[k], others |-> [k2 \in Keys \ {k} |-> Observe(store, k2)]]

Save(k, v) ==
    LET r == Map_save(map, store, k, v)
    IN  /\ store' = r.store
        /\ ret' = [op |-> "save", key |-> k, arg |-> v, result |-> r.result,
                   found |-> Found(k), changed |-> (r.store # store)]
        /\ shadow' = [shadow EXCEPT ![k] = Stored(v)]
        /\ Touch(k)
        /\ UNCHANGED <<qvars, map, path>>

Remove(k) ==
    /\ store' = Map_remove(map, store, k)
    /\ ret' = [op |-> "remove", key |-> k, found |-> Found(k),
               changed |-> (Map_remove(map, store, k) # store)]
    /\ shadow' = [shadow EXCEPT ![k] = Absent]
    /\ Touch(k)
    /\ UNCHANGED <<qvars, map, path>>

Load(k) ==
    /\ ret' = [op |-> "load", key |-> k, result |-> Map_load(map, store, k)]
    /\ Touch(k)
    /\ UNCHANGED <<store, qvars, mvars>>

MayLoad(k) ==
    /\ ret' = [op |-> "may_load", key |-> k, result |-> Map_may_load(map, store, k)]
    /\ Touch(k)
    /\ UNCHANGED <<store, qvars, mvars>>

Has(k) ==
    /\ ret' = [op |-> "has", key |-> k, result |-> Map_has(map, store, k)]
    /\ Touch(k)
    /\ UNCHANGED <<store, qvars, mvars>>

\* what the store holds at k after an update that returned r
AfterUpdate(k, r) == IF IsOk(r.result) THEN Stored(r.result[2]) ELSE shadow[k]

Update(k, action) ==
    LET r == Map_update(map, store, k, action)
    IN  /\ IsOk(r.result) => r.result[2] <= MaxStored
        /\ store' = r.store
        /\ ret' = [op |-> "update", key |-> k, arg |-> action, result |-> r.result,
                   seen |-> r.seen, found |-> Found(k), changed |-> (r.store # store)]
        /\ shadow' = [shadow EXCEPT ![k] = AfterUpdate(k, r)]
        /\ Touch(k)
        /\ UNCHANGED <<qvars, map, path>>

UpdateOrDefault(k, action) ==
    LET r == Map_update_or_default(map, store, k, action)
    IN  /\ IsOk(r.result) => r.result[2] <= MaxStored
        /\ store' = r.store
        /\ ret' = [op |-> "update_or_default", key |-> k, arg |-> action,
                   result |-> r.result, seen |-> r.seen, found |-> Found(k),
                   changed |-> (r.store # store)]
        /\ shadow' = [shadow EXCEPT ![k] = AfterUpdate(k, r)]
        /\ Touch(k)
        /\ UNCHANGED <<qvars, map, path>>

\* store.set(&MAP.key(k), bytes), as the test existence does
RawSet(k, bytes) ==
    /\ store' = store_set(store, Map_key(map, k), bytes)
    /\ ret' = [op |-> "raw_set", key |-> k, arg |-> bytes]
    /\ shadow' = [shadow EXCEPT ![k] = Raw(bytes)]
    /\ Touch(k)
    /\ UNCHANGED <<qvars, map, path>>

\* let john = PEOPLE.key(b"john"): the caller keeps the Path
Key(k) ==
    /\ path' = [key |-> k, bytes |-> Map_key(map, k)]
    /\ ret' = [op |-> "key", key |-> k]
    /\ Touch(k)
    /\ UNCHANGED <<store, qvars, map, shadow>>

PathSave(v) ==
    /\ path # NoPath
    /\ store' = Path_save(store, path.bytes, v).store
    /\ ret' = [op |-> "path_save", key |-> path.key, arg |-> v,
               result |-> Path_save(store, path.bytes, v).result,
               found |-> Found(path.key),
               changed |-> (Path_save(store, path.bytes, v).store # store)]
    /\ shadow' = [shadow EXCEPT ![path.key] = Stored(v)]
    /\ UNCHANGED <<qvars, map, path, touched>>

PathRemove ==
    /\ path # NoPath
    /\ store' = Path_remove(store, path.bytes)
    /\ ret' = [op |-> "path_remove", key |-> path.key, found |-> Found(path.key),
               changed |-> (Path_remove(store, path.bytes) # store)]
    /\ shadow' = [shadow EXCEPT ![path.key] = Absent]
    /\ UNCHANGED <<qvars, map, path, touched>>

PathLoad ==
    /\ path # NoPath
    /\ ret' = [op |-> "path_load", key |-> path.key, result |-> Path_load(store, path.bytes)]
    /\ UNCHANGED <<store, qvars, mvars, touched>>

PathMayLoad ==
    /\ path # NoPath
    /\ ret' = [op |-> "path_may_load", key |-> path.key,
               result |-> Path_may_load(store, path.bytes)]
    /\ UNCHANGED <<store, qvars, mvars, touched>>

NextMap ==
    \/ \E k \in Keys : \E v \in Values : Save(k, v)
    \/ \E k \in Keys : Remove(k)
    \/ \E k \in Keys : Load(k)
    \/ \E k \in Keys : MayLoad(k)
    \/ \E k \in Keys : Has(k)
    \/ \E k \in Keys : \E action \in UpdateActions : Update(k, action)
    \/ \E k \in Keys : \E action \in UpdateActions : UpdateOrDefault(k, action)
    \/ \E k \in Keys : \E bytes \in RawBytes : RawSet(k, bytes)
    \/ \E k \in Keys : Key(k)
    \/ \E v \in Values : PathSave(v)
    \/ PathRemove
    \/ PathLoad
    \/ PathMayLoad

SpecMap == InitMap /\ [][NextMap]_vars

\* what load, may_load and has return for a key last written as s
ExpectLoad(s) ==
    IF s = Absent THEN Err("NotFound")
    ELSE IF s[1] = "value" THEN Ok(s[2]) ELSE Err("ParseError")
ExpectMayLoad(s) ==
    IF s = Absent THEN Ok(None)
    ELSE IF s[1] = "value" THEN Ok(Some(s[2])) ELSE Err("ParseError")
ExpectHas(s) == s # Absent

IsValue(s) == s[1] = "value"
IsRaw(s) == s[1] = "raw"
Writes == {"save", "remove", "update", "update_or_default", "path_save", "path_remove"}

(***************************************************************************)
(* C5: after save(k, v), load(k) returns v and may_load(k) returns         *)
(* Some(v), through the Map and through a Path taken earlier from          *)
(* Map::key(k); a later save(k, v2) makes load(k) return v2; and save,     *)
(* remove and update on k leave load, may_load and has of every other key  *)
(* as they were.                                                           *)
(***************************************************************************)
C5_RoundTrip ==
    /\ \A k \in Keys : IsValue(shadow[k]) =>
          /\ Map_load(map, store, k) = Ok(shadow[k][2])
          /\ Map_may_load(map, store, k) = Ok(Some(shadow[k][2]))
    /\ (path # NoPath /\ IsValue(shadow[path.key])) =>
          /\ Path_load(store, path.bytes) = Ok(shadow[path.key][2])
          /\ Path_may_load(store, path.bytes) = Ok(Some(shadow[path.key][2]))
    /\ ret.op \in {"save", "path_save"} =>
          /\ ret.result = Ok(<<>>)
          /\ Map_load(map, store, ret.key) = Ok(ret.arg)
          /\ Map_may_load(map, store, ret.key) = Ok(Some(ret.arg))
    /\ (ret.op \in {"load", "path_load"} /\ IsValue(shadow[ret.key])) =>
          ret.result = Ok(shadow[ret.key][2])
    /\ (ret.op \in {"may_load", "path_may_load"} /\ IsValue(shadow[ret.key])) =>
          ret.result = Ok(Some(shadow[ret.key][2]))
    /\ ret.op \in Writes =>
          \A k2 \in Keys \ {ret.key} : Observe(store, k2) = ret.found.others[k2]

\* a value saved through the Map has been overwritten through the kept Path,
\* and loaded through the Map, while the other key holds a value of its own
C5_Witness ==
    /\ ret.op = "load"
    /\ path # NoPath
    /\ path.key = ret.key
    /\ ret.result = Ok(1)
    /\ \E k2 \in Keys \ {ret.key} : shadow[k2] = Stored(0)

(***************************************************************************)
(* C6: two distinct sequences of segment values never give the same byte   *)
(* key within one Map, also when their plain concatenations are the same   *)
(* bytes: with a value saved at one key and nothing at the other, may_load *)
(* of the other returns None and load of the first returns the value; for  *)
(* keys of two segments and of three.                                      *)
(***************************************************************************)
\* every key the behaviours use on the Map of this namespace
ShapeKeys(namespace) == UNION {use.keys : use \in {u \in MapUses : u.namespace = namespace}}

C6_NoCollision ==
    /\ \A k1 \in ShapeKeys(map.namespace) : \A k2 \in ShapeKeys(map.namespace) :
          k1 # k2 => Map_key(map, k1) # Map_key(map, k2)
    /\ \A k \in Keys : \A k2 \in Keys \ {k} :
          (IsValue(shadow[k]) /\ shadow[k2] = Absent) =>
              /\ Map_may_load(map, store, k2) = Ok(None)
              /\ Map_load(map, store, k) = Ok(shadow[k][2])
    /\ (ret.op = "may_load" /\ shadow[ret.key] = Absent) => ret.result = Ok(None)

\* a value is saved at ("owner", "spender"), and may_load(("owners", "pender")),
\* whose segments concatenate to the same bytes, has just returned None
C6_Witness ==
    /\ map.namespace = ALLOWANCE
    /\ Keys = {OwnerSpender, OwnersPender}
    /\ Flatten(OwnerSpender) = Flatten(OwnersPender)
    /\ IsValue(shadow[OwnerSpender])
    /\ ret.op = "may_load"
    /\ ret.key = OwnersPender
    /\ ret.result = Ok(None)
    /\ Map_load(map, store, OwnerSpender) = Ok(shadow[OwnerSpender][2])

(***************************************************************************)
(* C8: for a key never written, or written and then removed, may_load      *)
(* returns None, has returns false and load fails with NotFound; remove of *)
(* an absent key changes nothing, and a second remove leaves the store as  *)
(* the first left it.                                                      *)
(***************************************************************************)
C8_Absence ==
    /\ \A k \in Keys : shadow[k] = Absent =>
          /\ Map_may_load(map, store, k) = Ok(None)
          /\ Map_has(map, store, k) = FALSE
          /\ Map_load(map, store, k) = Err("NotFound")
    /\ (ret.op \in {"load", "path_load"} /\ shadow[ret.key] = Absent) =>
          ret.result = Err("NotFound")
    /\ (ret.op \in {"may_load", "path_may_load"} /\ shadow[ret.key] = Absent) =>
          ret.result = Ok(None)
    /\ (ret.op = "has" /\ shadow[ret.key] = Absent) => ret.result = FALSE
    /\ ret.op \in {"remove", "path_remove"} =>
          /\ ret.found.was = Absent => ~ret.changed
          /\ Map_remove(map, store, ret.key) = store
          /\ ret.op = "path_remove" => Path_remove(store, path.bytes) = store

\* a key that held a value has been removed while the other key holds one
C8_Witness ==
    /\ ret.op = "remove"
    /\ IsValue(ret.found.was)
    /\ ret.changed
    /\ \E k2 \in Keys \ {ret.key} : IsValue(shadow[k2])
    /\ Map_has(map, store, ret.key) = FALSE

(***************************************************************************)
(* C9: has(k) is true exactly when bytes are stored at the byte key of k,  *)
(* parseable or not, empty included; when they are not parseable, load and *)
(* may_load fail with ParseError, which is not the NotFound of an absent   *)
(* key, and may_load does not report them as absent.                       *)
(***************************************************************************)
C9_ExistenceNotValidity ==
    /\ \A k \in Keys :
          /\ Map_has(map, store, k) = (shadow[k] # Absent)
          /\ Map_has(map, store, k) = (Map_key(map, k) \in DOMAIN store)
          /\ IsRaw(shadow[k]) =>
                /\ Map_load(map, store, k) = Err("ParseError")
                /\ Map_may_load(map, store, k) = Err("ParseError")
                /\ Map_load(map, store, k) # Err("NotFound")
                /\ Map_may_load(map, store, k) # Ok(None)
    /\ ret.op = "has" => ret.result = (shadow[ret.key] # Absent)
    /\ (ret.op \in {"load", "may_load", "path_load", "path_may_load"} /\ IsRaw(shadow[ret.key])) =>
          ret.result = Err("ParseError")

\* has has just returned true for a key that holds empty bytes
C9_Witness ==
    /\ ret.op = "has"
    /\ shadow[ret.key] = Raw(<<>>)
    /\ ret.result = TRUE
    /\ Map_load(map, store, ret.key) = Err("ParseError")

(***************************************************************************)
(* C10: update calls the action with Some(current value) when the key is   *)
(* present and None when absent, update_or_default with the value or the   *)
(* default; an Ok(x) of the action is stored and returned, so that load    *)
(* returns x; an error of the action, or bytes that do not parse, is       *)
(* returned and the store is left as it was.                               *)
(***************************************************************************)
C10_Update ==
    /\ ret.op = "update" =>
          /\ IsValue(ret.found.was) => ret.seen = Some(ret.found.was[2])
          /\ ret.found.was = Absent => ret.seen = None
    /\ ret.op = "update_or_default" =>
          /\ IsValue(ret.found.was) => ret.seen = Some(ret.found.was[2])
          /\ ret.found.was = Absent => ret.seen = Some(0)
    /\ ret.op \in {"update", "update_or_default"} =>
          /\ IsRaw(ret.found.was) =>
                (ret.result = Err("ParseError") /\ ret.seen = <<"NotCalled">>)
          /\ (~IsRaw(ret.found.was) /\ ret.arg = "add_ten") =>
                ret.result = Ok(unwrap_or_default(ret.seen) + 10)
          /\ (~IsRaw(ret.found.was) /\ ret.arg = "fail") => ret.result = Err("ActionError")
          /\ IsOk(ret.result) => Map_load(map, store, ret.key) = ret.result
          /\ IsErr(ret.result) =>
                /\ ~ret.changed
                /\ Observe(store, ret.key) = <<ExpectLoad(ret.found.was),
                                               ExpectMayLoad(ret.found.was),
                                               ExpectHas(ret.found.was)>>

\* update on a key that was absent has stored the action's value
C10_Witness ==
    /\ ret.op = "update"
    /\ ret.found.was = Absent
    /\ ret.seen = None
    /\ ret.result = Ok(10)
    /\ Map_load(map, store, ret.key) = Ok(10)

(***************************************************************************)
(* A Queue and a Map of byte-string keys side by side in one store, their  *)
(* namespaces any two strings (a &str may hold any character, U+0000 and   *)
(* U+0001 too).                                                            *)
(***************************************************************************)
Q_NS == <<113>>
NUL_SOH_Q_NS == <<0, 1, 113>>
HeadKey == << HEAD >>

SharedUses ==
    { [queue |-> TEST_NS, map |-> PEOPLE],
      [queue |-> TEST_NS, map |-> Q_NS],
      [queue |-> NUL_SOH_Q_NS, map |-> PEOPLE],
      [queue |-> NUL_SOH_Q_NS, map |-> Q_NS] }

InitShared ==
    \E use \in SharedUses :
        /\ requested = U32_ONE
        /\ queue = Queue_with_capacity(use.queue, U32_ONE)
        /\ model = Model_new(U32_ONE)
        /\ overflowed = FALSE
        /\ pushed = <<>>
        /\ popped = <<>>
        /\ start = U32_ZERO
        /\ store = EmptyStore
        /\ map = Map_new(use.map)
        /\ path = NoPath
        /\ shadow = [k \in {John, HeadKey} |-> Absent]
        /\ ret = NoCall
        /\ touched = Untouched
        /\ calls = NoCalls

\* push_back and pop_front with no reference FIFO beside them
SharedPush(v) ==
    /\ \E checked \in BOOLEAN :
          LET r == push_back(queue, store, v, checked)
          IN  /\ store' = r.store
              /\ ret' = [op |-> "push_back", arg |-> v, result |-> r.result]
              /\ overflowed' = r.overflow
    /\ touched' = [touched EXCEPT !.queue = @ \cup push_back_touches(queue, store)]
    /\ UNCHANGED <<queue, requested, model, pushed, popped, start, mvars>>

SharedPop ==
    /\ \E checked \in BOOLEAN :
          LET r == pop_front(queue, store, checked)
          IN  /\ store' = r.store
              /\ ret' = [op |-> "pop_front", arg |-> 0, result |-> r.result]
              /\ overflowed' = r.overflow
    /\ touched' = [touched EXCEPT !.queue = @ \cup pop_front_touches(queue, store)]
    /\ UNCHANGED <<queue, requested, model, pushed, popped, start, mvars>>

NextShared ==
    \/ \E v \in Values : SharedPush(v)
    \/ SharedPop
    \/ \E k \in Keys : \E v \in Values : Save(k, v)
    \/ \E k \in Keys : Remove(k)
    \/ \E k \in Keys : Load(k)

SpecShared == InitShared /\ [][NextShared]_vars

(***************************************************************************)
(* C7: containers of distinct namespaces sharing one store never read or   *)
(* write the same byte key, the head and tail counters and the slots of a  *)
(* Queue included; and the head key, the tail key and the slot keys of one *)
(* Queue are pairwise distinct.                                            *)
(***************************************************************************)
C7_NoSharedByteKeys ==
    /\ Queue_namespace(queue) # Map_namespace(map) => touched.queue \cap touched.map = {}
    /\ with_namespace_suffix(queue, HEAD) # with_namespace_suffix(queue, TAIL)
    /\ \A i \in 0..NatOf(Queue_max_capacity(queue).val) :
          Map_key(queue.map, u32_key(U32Of(i))) \notin
              {with_namespace_suffix(queue, HEAD), with_namespace_suffix(queue, TAIL)}

(***************************************************************************)
(* The keys of the test create_path, and the layout of a byte key written  *)
(* position by position.                                                   *)
(***************************************************************************)
Maria == <<109, 97, 114, 105, 97>>
Pedro == <<112, 101, 100, 114, 111>>
JohnMaria == << John[1], Maria >>
JohnEightPedro == << John[1], u8_key(8)[1], Pedro >>

\* a byte string after its length as two bytes, high byte first
Prefixed(seg) == <<Len(seg) \div 256, Len(seg) % 256>> \o seg

\* how many bytes of the byte key come before segment i of segs and its length
RECURSIVE SegmentStart(_, _, _)
SegmentStart(ns, segs, i) ==
    IF i = 1 THEN 2 + Len(ns)
    ELSE SegmentStart(ns, segs, i - 1) + Len(segs[i - 1]) + 2

\* key is laid out as the byte key of segs under namespace ns
HasLayout(key, ns, segs) ==
    LET n == Len(segs)
        at(i) == SegmentStart(ns, segs, i)
    IN  /\ SubSeq(key, 1, 2 + Len(ns)) = Prefixed(ns)
        /\ \A i \in 1..(n - 1) :
              SubSeq(key, at(i) + 1, at(i) + 2 + Len(segs[i])) = Prefixed(segs[i])
        /\ SubSeq(key, at(n) + 1, Len(key)) = segs[n]
        /\ Len(key) = at(n) + Len(segs[n])

(***************************************************************************)
(* C11: the byte key of Map(namespace).key(segments) is the 2-byte         *)
(* big-endian length of the namespace, the namespace, then every segment   *)
(* but the last after its 2-byte big-endian length, then the last segment  *)
(* with no length; an integer segment is its big-endian bytes at its fixed *)
(* width (a u8 one byte, a Queue slot index four).                         *)
(***************************************************************************)
C11_KeyLayout ==
    /\ \A k \in Keys : HasLayout(Map_key(map, k), map.namespace, k)
    /\ path # NoPath => HasLayout(path.bytes, map.namespace, path.key)
    \* create_path: PEOPLE.key(b"john")
    /\ Len(Map_key(Map_new(PEOPLE), John)) = Len(PEOPLE) + Len(John[1]) + 2
    /\ SubSeq(Map_key(Map_new(PEOPLE), John), 3, 8) = PEOPLE
    /\ SubSeq(Map_key(Map_new(PEOPLE), John), 9, 12) = John[1]
    /\ Map_key(Map_new(PEOPLE), John) = <<0, 6>> \o PEOPLE \o John[1]
    \* create_path: ALLOWANCE.key((b"john", b"maria"))
    /\ Len(Map_key(Map_new(ALLOWANCE), JohnMaria)) = Len(ALLOWANCE) + Len(John[1]) + Len(Maria) + 2 * 2
    /\ SubSeq(Map_key(Map_new(ALLOWANCE), JohnMaria), 3, 7) = ALLOWANCE
    /\ SubSeq(Map_key(Map_new(ALLOWANCE), JohnMaria), 10, 13) = John[1]
    /\ SubSeq(Map_key(Map_new(ALLOWANCE), JohnMaria), 14, 18) = Maria
    /\ Map_key(Map_new(ALLOWANCE), JohnMaria) = <<0, 5>> \o ALLOWANCE \o <<0, 4>> \o John[1] \o Maria
    \* create_path: TRIPLE.key((b"john", 8u8, "pedro"))
    /\ Len(Map_key(Map_new(TRIPLE), JohnEightPedro)) = Len(TRIPLE) + Len(John[1]) + 1 + Len(Pedro) + 2 * 3
    /\ SubSeq(Map_key(Map_new(TRIPLE), JohnEightPedro), 3, 8) = TRIPLE
    /\ SubSeq(Map_key(Map_new(TRIPLE), JohnEightPedro), 11, 14) = John[1]
    /\ SubSeq(Map_key(Map_new(TRIPLE), JohnEightPedro), 17, 17) = <<8>>
    /\ SubSeq(Map_key(Map_new(TRIPLE), JohnEightPedro), 18, 22) = Pedro
    /\ Map_key(Map_new(TRIPLE), JohnEightPedro)
          = <<0, 6>> \o TRIPLE \o <<0, 4>> \o John[1] \o <<0, 1, 8>> \o Pedro
    \* a Queue slot index is the four bytes of the u32, high byte first
    /\ u32_key(<<258, 772>>) = << <<1, 2, 3, 4>> >>
    /\ \A i \in 0..MaxCapacity :
          Map_key(queue.map, u32_key(U32Of(i))) = Prefixed(Queue_namespace(queue)) \o <<0, 0, 0, i>>

\* Map::key has just given the Path of a three-segment key of TRIPLE
C11_Witness ==
    /\ ret.op = "key"
    /\ map.namespace = TRIPLE
    /\ path.key = OwnerTenRecipient
    /\ path.bytes = <<0, 6>> \o TRIPLE \o <<0, 5, 111, 119, 110, 101, 114, 0, 1, 10>>
                       \o <<114, 101, 99, 105, 112, 105, 101, 110, 116>>

(***************************************************************************)
(* Construction as a step: a caller builds the Queue with a capacity of    *)
(* its choice, or with Queue::new, beside an empty store, and pushes and   *)
(* pops on the Queue it got.  A construction that panics gives no Queue.   *)
(***************************************************************************)
\* no Queue value: none is built yet, or the construction panicked
NoQueue == [capacity |-> U32_ZERO, map |-> Map_new(<<>>)]

\* capacities a caller asks for: the ends of the u32 range, small ones, 2^16
CapacitySamples ==
    {U32_ZERO, U32_ONE, U32Of(MaxCapacity), <<1, 0>>, U32_MAX_MINUS_1, U32_MAX}

InitConstruct ==
    /\ queue = NoQueue
    /\ requested = U32_ZERO
    /\ store = EmptyStore
    /\ model = Model_new(U32_ZERO)
    /\ ret = NoCall
    /\ overflowed = FALSE
    /\ pushed = <<>>
    /\ popped = <<>>
    /\ start = U32_ZERO
    /\ map = NoQueue.map
    /\ path = NoPath
    /\ shadow = NoKeys
    /\ touched = Untouched
    /\ calls = NoCalls

\* the caller's state after a construction that returned r or panicked
Constructed(op, n, r) ==
    /\ queue' = IF Panic = r THEN NoQueue ELSE r
    /\ requested' = n
    /\ model' = Model_new(n)
    /\ ret' = [op |-> op, arg |-> n, result |-> IF Panic = r THEN Panic ELSE Ok(<<>>)]
    /\ map' = IF Panic = r THEN NoQueue.map ELSE r.map
    /\ UNCHANGED <<store, overflowed, pushed, popped, start, path, shadow, touched, calls>>

WithCapacity(n) ==
    /\ ret = NoCall
    /\ Constructed("with_capacity", n, Queue_with_capacity(TEST_NS, n))

New ==
    /\ ret = NoCall
    /\ Constructed("new", u32_sub(U32_MAX, U32_ONE).val, Queue_new(TEST_NS))

NextConstruct ==
    \/ \E n \in CapacitySamples : WithCapacity(n)
    \/ New
    \/ \E v \in Values : queue # NoQueue /\ PushBack(v)
    \/ queue # NoQueue /\ PopFront

SpecConstruct == InitConstruct /\ [][NextConstruct]_vars

(***************************************************************************)
(* C12: construction fails for a requested capacity of 0 and of u32::MAX   *)
(* and succeeds for every capacity from 1 to u32::MAX - 1; it fails at     *)
(* construction, before any store read or write; Queue::new gives a        *)
(* max_capacity of u32::MAX - 1.                                           *)
(***************************************************************************)
C12_ConstructionFailsFast ==
    /\ ret # NoCall => (queue = NoQueue <=> requested \in {U32_ZERO, U32_MAX})
    /\ queue = NoQueue => (store = EmptyStore /\ touched = Untouched)
    /\ ret.op \in {"with_capacity", "new"} =>
          /\ store = EmptyStore
          /\ touched = Untouched
          /\ (ret.result = Panic) <=> (ret.arg \in {U32_ZERO, U32_MAX})
          /\ (ret.result = Ok(<<>>)) <=>
                (u32_ge(ret.arg, U32_ONE) /\ u32_ge(U32_MAX_MINUS_1, ret.arg))
    /\ queue # NoQueue =>
          /\ Queue_max_capacity(queue) = [val |-> requested, overflow |-> FALSE]
          /\ u32_add(requested, U32_ONE) = [val |-> queue.capacity, overflow |-> FALSE]
    /\ ret.op = "new" =>
          /\ ret.result = Ok(<<>>)
          /\ Queue_max_capacity(queue).val = <<Limb - 1, Limb - 2>>

\* Queue::with_capacity(ns, u32::MAX) has panicked, and nothing touched the store
C12_Witness ==
    /\ ret.op = "with_capacity"
    /\ ret.arg = U32_MAX
    /\ ret.result = Panic
    /\ queue = NoQueue
    /\ store = EmptyStore

(***************************************************************************)
(* Set: a Map<T, ()> of which only save, contains and remove are exposed.  *)
(* The payload () is stored as a zero-length marker.                       *)
(***************************************************************************)
UNIT == <<>>
to_vec_unit(u) == <<>>
\* Path::save and Map::save at the value type ()
Path_save_unit(st, p, u) == [store |-> store_set(st, p, to_vec_unit(u)), result |-> Ok(<<>>)]
Map_save_unit(m, st, k, u) == Path_save_unit(st, Map_key(m, k), u)

Set_new(namespace) == [map |-> Map_new(namespace)]
Set_namespace(s) == Map_namespace(s.map)
Set_save(s, st, t) == Map_save_unit(s.map, st, t, UNIT)
Set_contains(s, st, t) == Map_has(s.map, st, t)
\* a remove that leaves the element in the store
Set_remove_kept(s, st, t) == st
Set_remove(s, st, t) == Map_remove(s.map, st, t)

(***************************************************************************)
(* A Set of byte strings over an empty store; saves, removes and contains  *)
(* in any order.  shadow holds, for each element, whether the last save or *)
(* remove applied to it was a save.                                        *)
(***************************************************************************)
SET_NS == <<115, 101, 116>>
Jo == << <<106, 111>> >>
Elements == {John, Jack, Jo}
Saved == Stored(UNIT)

\* the Set whose Map the variable map holds
TheSet == [map |-> map]

InitSet ==
    /\ IdleQueue
    /\ store = EmptyStore
    /\ map = Set_new(SET_NS).map
    /\ path = NoPath
    /\ shadow = [t \in Elements |-> Absent]
    /\ ret = NoCall
    /\ touched = Untouched
    /\ calls = NoCalls

\* what a save or remove of t found: the last call on t, and contains of the others
SetFound(t) ==
    [was |-> shadow[t], others |-> [t2 \in Keys \ {t} |-> Set_contains(TheSet, store, t2)]]

SetSave(t) ==
    LET r == Set_save(TheSet, store, t)
    IN  /\ store' = r.store
        /\ ret' = [op |-> "save", key |-> t, result |-> r.result,
                   found |-> SetFound(t), changed |-> (r.store # store)]
        /\ shadow' = [shadow EXCEPT ![t] = Saved]
        /\ Touch(t)
        /\ UNCHANGED <<qvars, map, path>>

SetRemove(t) ==
    /\ store' = Set_remove(TheSet, store, t)
    /\ ret' = [op |-> "remove", key |-> t, found |-> SetFound(t),
               changed |-> (Set_remove(TheSet, store, t) # store)]
    /\ shadow' = [shadow EXCEPT ![t] = Absent]
    /\ Touch(t)
    /\ UNCHANGED <<qvars, map, path>>

SetContains(t) ==
    /\ ret' = [op |-> "contains", key |-> t, result |-> Set_contains(TheSet, store, t)]
    /\ Touch(t)
    /\ UNCHANGED <<store, qvars, mvars>>

NextSet ==
    \/ \E t \in Keys : SetSave(t)
    \/ \E t \in Keys : SetRemove(t)
    \/ \E t \in Keys : SetContains(t)

SpecSet == InitSet /\ [][NextSet]_vars

(***************************************************************************)
(* C13: from an empty store, after any saves and removes, contains(t) is   *)
(* true exactly when the last save or remove applied to t was a save;      *)
(* calls on t leave contains(t2) of every other t2 as it was; a save of an *)
(* element that is present and a remove of one that is absent change       *)
(* nothing.                                                                *)
(***************************************************************************)
C13_SetMembership ==
    /\ \A t \in Keys : Set_contains(TheSet, store, t) = (shadow[t] = Saved)
    /\ ret.op = "contains" => ret.result = (shadow[ret.key] = Saved)
    /\ ret.op = "save" => (ret.result = Ok(<<>>) /\ Set_contains(TheSet, store, ret.key))
    /\ ret.op = "remove" => ~Set_contains(TheSet, store, ret.key)
    /\ ret.op \in {"save", "remove"} =>
          \A t2 \in Keys \ {ret.key} : Set_contains(TheSet, store, t2) = ret.found.others[t2]
    /\ (ret.op = "save" /\ ret.found.was = Saved) => ~ret.changed
    /\ (ret.op = "remove" /\ ret.found.was = Absent) => ~ret.changed

\* an element saved earlier has been removed while another one stays in the Set
C13_Witness ==
    /\ ret.op = "remove"
    /\ ret.found.was = Saved
    /\ ret.changed
    /\ ~Set_contains(TheSet, store, ret.key)
    /\ \E t2 \in Keys \ {ret.key} : shadow[t2] = Saved /\ Set_contains(TheSet, store, t2)

(***************************************************************************)
(* C14: in every store reached from the empty store by push_back and       *)
(* pop_front, the stored head and tail are below the slot count C (the     *)
(* capacity asked for plus one), and every slot index written or read is   *)
(* below C; counters whose keys were never written read as 0, and the      *)
(* queue is then empty.                                                    *)
(***************************************************************************)
\* the byte keys of the slots 0 .. C - 1
SlotKeys == {Map_key(queue.map, u32_key(U32Of(i))) : i \in 0..(NatOf(queue.capacity) - 1)}
CounterKeys == {with_namespace_suffix(queue, HEAD), with_namespace_suffix(queue, TAIL)}

C14_CountersInRange ==
    /\ queue.capacity = u32_add(requested, U32_ONE).val
    /\ u32_lt(Queue_head(queue, store), queue.capacity)
    /\ u32_lt(Queue_tail(queue, store), queue.capacity)
    /\ touched.queue \subseteq (CounterKeys \cup SlotKeys)
    /\ DOMAIN store \subseteq (CounterKeys \cup SlotKeys)
    /\ with_namespace_suffix(queue, HEAD) \notin DOMAIN store =>
          Queue_head(queue, store) = U32_ZERO
    /\ with_namespace_suffix(queue, TAIL) \notin DOMAIN store =>
          /\ Queue_tail(queue, store) = U32_ZERO
          /\ Queue_head(queue, store) = U32_ZERO
          /\ Queue_len(queue, store) = [val |-> U32_ZERO, overflow |-> FALSE]
          /\ pushed = <<>>

\* a push into the last slot has brought tail from C - 1 back to 0
C14_Witness ==
    /\ ret.op = "push_back"
    /\ ret.result = Ok(TRUE)
    /\ Len(pushed) = NatOf(queue.capacity)
    /\ Queue_tail(queue, store) = U32_ZERO
    /\ Map_key(queue.map, u32_key(requested)) \in touched.queue

(***************************************************************************)
(* C15: tail = head exactly when the queue holds no elements (as many      *)
(* push_back calls returned true as pop_front calls returned a value); a   *)
(* push_back that returns true never leaves tail equal to head, so a full  *)
(* queue is not taken for an empty one.                                    *)
(***************************************************************************)
C15_EmptyIffTailIsHead ==
    /\ (Queue_tail(queue, store) = Queue_head(queue, store)) <=> (Len(pushed) = Len(popped))
    /\ (ret.op = "push_back" /\ ret.result = Ok(TRUE)) =>
          Queue_tail(queue, store) # Queue_head(queue, store)
    /\ Queue_is_full(queue, store).val =>
          /\ Queue_tail(queue, store) # Queue_head(queue, store)
          /\ Held = NatOf(requested)

\* a push has filled the queue, its tail wrapped to just behind head
C15_Witness ==
    /\ ret.op = "push_back"
    /\ ret.result = Ok(TRUE)
    /\ Held = NatOf(requested)
    /\ Queue_is_full(queue, store).val
    /\ u32_add(Queue_tail(queue, store), U32_ONE).val = Queue_head(queue, store)

(***************************************************************************)
(* C16: a push_back that returns true changes tail to (tail + 1) mod C and *)
(* leaves head as it was; a pop_front that returns a value changes head to *)
(* (head + 1) mod C and leaves tail as it was, C being the capacity asked  *)
(* for plus one; so from the empty store tail is the number of successful  *)
(* pushes mod C and head the number of successful pops mod C.              *)
(***************************************************************************)
C16_CountersAdvanceByOne ==
    [][ LET C == NatOf(requested) + 1
            head == NatOf(Queue_head(queue, store))
            tail == NatOf(Queue_tail(queue, store))
            head_after == NatOf(Queue_head(queue, store'))
            tail_after == NatOf(Queue_tail(queue, store'))
        IN  /\ (ret'.op = "push_back" /\ ret'.result = Ok(TRUE)) =>
                  (tail_after = (tail + 1) % C /\ head_after = head /\ tail_after # tail)
            /\ (ret'.op = "pop_front" /\ IsOk(ret'.result) /\ ret'.result # Ok(None)) =>
                  (head_after = (head + 1) % C /\ tail_after = tail /\ head_after # head)
            /\ tail_after = Len(pushed') % C
            /\ head_after = Len(popped') % C ]_vars

\* invariant_tail_and_head_wrap_around: capacity 1, two rounds of push and pop
C16_Witness ==
    /\ requested = U32_ONE
    /\ ret.op = "pop_front"
    /\ Len(pushed) = 2
    /\ Len(popped) = 2
    /\ Queue_tail(queue, store) = U32_ZERO
    /\ Queue_head(queue, store) = U32_ZERO
    /\ with_namespace_suffix(queue, HEAD) \in DOMAIN store

(***************************************************************************)
(* C17: in every reachable state len() <= max_capacity(), so that          *)
(* free_capacity() = max_capacity() - len() does not underflow,            *)
(* len() + free_capacity() = max_capacity(), and is_full() holds exactly   *)
(* when free_capacity() is 0.                                              *)
(***************************************************************************)
C17_LenWithinCapacity ==
    queue # NoQueue =>
        LET len == Queue_len(queue, store)
            free == Queue_free_capacity(queue, store)
            max == Queue_max_capacity(queue)
            full == Queue_is_full(queue, store)
        IN  /\ ~len.overflow /\ ~max.overflow /\ ~full.overflow
            /\ u32_ge(max.val, len.val)
            /\ ~free.overflow
            /\ free.val = u32_sub(max.val, len.val).val
            /\ u32_add(len.val, free.val) = [val |-> max.val, overflow |-> FALSE]
            /\ full.val <=> (free.val = U32_ZERO)
            /\ len.val = U32Of(Held)

\* a push has filled a queue whose tail is behind its head: free_capacity is 0
C17_Witness ==
    /\ queue # NoQueue
    /\ ret.op = "push_back"
    /\ ret.result = Ok(TRUE)
    /\ u32_lt(Queue_tail(queue, store), Queue_head(queue, store))
    /\ Queue_is_full(queue, store).val
    /\ Queue_free_capacity(queue, store) = [val |-> U32_ZERO, overflow |-> FALSE]
    /\ Queue_len(queue, store).val = requested

(***************************************************************************)
(* C18: pop_front never removes or rewrites a slot: the only key a         *)
(* pop_front that returns a value writes is the head counter, and the      *)
(* popped slot keeps its bytes until a later push_back overwrites it; a    *)
(* value left behind in a slot is not returned by a later pop_front unless *)
(* a push_back has written that slot again.                                *)
(***************************************************************************)
C18_PopKeepsSlots ==
    [][ ret'.op = "pop_front" =>
          LET head_key == with_namespace_suffix(queue, HEAD)
              popped_slot == Map_key(queue.map, u32_key(Queue_head(queue, store)))
          IN  /\ DOMAIN store \subseteq DOMAIN store'
              /\ \A k \in (DOMAIN store') \ {head_key} :
                    k \in DOMAIN store /\ store'[k] = store[k]
              /\ (IsOk(ret'.result) /\ ret'.result # Ok(None)) =>
                    /\ head_key \in DOMAIN store'
                    /\ Queue_head(queue, store') # Queue_head(queue, store)
                    /\ popped_slot \in DOMAIN store'
                    /\ store'[popped_slot] = to_vec(ret'.result[2][2])
                    \* the value is the one the latest push_back into this slot wrote
                    /\ ret'.result[2][2] = pushed[Len(popped) + 1]
              /\ popped' = SubSeq(pushed', 1, Len(popped')) ]_vars

\* the queue has been emptied by pop_front, and slot 0 still holds the bytes
\* of the value that was popped from it
C18_Witness ==
    /\ ret.op = "pop_front"
    /\ ret.result = Ok(Some(1))
    /\ pushed = <<1>>
    /\ popped = <<1>>
    /\ Queue_len(queue, store).val = U32_ZERO
    /\ Map_key(queue.map, u32_key(U32_ZERO)) \in DOMAIN store
    /\ store[Map_key(queue.map, u32_key(U32_ZERO))] = to_vec(1)

(***************************************************************************)
(* push_back and pop_front one store call at a time.  A call record holds  *)
(* where the caller is in the function (pc: the store call it makes next)  *)
(* and its locals; each operator makes that store call and gives the store *)
(* it leaves, the byte key it handed to the store, and the call record     *)
(* after it.  The capacities are small here, so no 32-bit operation        *)
(* overflows.                                                              *)
(***************************************************************************)
\* a push_back that advances the tail counter before it writes the slot
push_back_at_tail_first(q, st, c) ==
    IF c.pc = "tail"
    THEN [store |-> st, key |-> with_namespace_suffix(q, TAIL),
          call |-> [c EXCEPT !.tail = Queue_tail(q, st), !.pc = "head"]]
    ELSE IF c.pc = "head"
    THEN LET head == Queue_head(q, st)
         IN  [store |-> st, key |-> with_namespace_suffix(q, HEAD),
              call |-> IF determine_is_full(q, head, c.tail).val
                       THEN [c EXCEPT !.head = head, !.pc = "idle", !.result = Ok(FALSE)]
                       ELSE [c EXCEPT !.head = head, !.pc = "save"]]
    ELSE IF c.pc = "save"
    THEN [store |-> inc_tail(q, st, c.tail).store, key |-> with_namespace_suffix(q, TAIL),
          call |-> [c EXCEPT !.pc = "inc"]]
    ELSE [store |-> Map_save(q.map, st, u32_key(c.tail), c.arg).store,
          key |-> Map_key(q.map, u32_key(c.tail)),
          call |-> [c EXCEPT !.pc = "idle", !.result = Ok(TRUE)]]

\* a push_back that does not look whether the queue is full
push_back_at_never_full(q, st, c) ==
    IF c.pc = "tail"
    THEN [store |-> st, key |-> with_namespace_suffix(q, TAIL),
          call |-> [c EXCEPT !.tail = Queue_tail(q, st), !.pc = "head"]]
    ELSE IF c.pc = "head"
    THEN [store |-> st, key |-> with_namespace_suffix(q, HEAD),
          call |-> [c EXCEPT !.head = Queue_head(q, st), !.pc = "save"]]
    ELSE IF c.pc = "save"
    THEN [store |-> Map_save(q.map, st, u32_key(c.tail), c.arg).store,
          key |-> Map_key(q.map, u32_key(c.tail)),
          call |-> [c EXCEPT !.pc = "inc"]]
    ELSE [store |-> inc_tail(q, st, c.tail).store, key |-> with_namespace_suffix(q, TAIL),
          call |-> [c EXCEPT !.pc = "idle", !.result = Ok(TRUE)]]

push_back_at(q, st, c) ==
    IF c.pc = "tail"
    THEN [store |-> st, key |-> with_namespace_suffix(q, TAIL),
          call |-> [c EXCEPT !.tail = Queue_tail(q, st), !.pc = "head"]]
    ELSE IF c.pc = "head"
    THEN LET head == Queue_head(q, st)
         IN  [store |-> st, key |-> with_namespace_suffix(q, HEAD),
              call |-> IF determine_is_full(q, head, c.tail).val
                       THEN [c EXCEPT !.head = head, !.pc = "idle", !.result = Ok(FALSE)]
                       ELSE [c EXCEPT !.head = head, !.pc = "save"]]
    ELSE IF c.pc = "save"
    THEN [store |-> Map_save(q.map, st, u32_key(c.tail), c.arg).store,
          key |-> Map_key(q.map, u32_key(c.tail)),
          call |-> [c EXCEPT !.pc = "inc"]]
    ELSE [store |-> inc_tail(q, st, c.tail).store, key |-> with_namespace_suffix(q, TAIL),
          call |-> [c EXCEPT !.pc = "idle", !.result = Ok(TRUE)]]

pop_front_at(q, st, c) ==
    IF c.pc = "tail"
    THEN [store |-> st, key |-> with_namespace_suffix(q, TAIL),
          call |-> [c EXCEPT !.tail = Queue_tail(q, st), !.pc = "head"]]
    ELSE IF c.pc = "head"
    THEN LET head == Queue_head(q, st)
         IN  [store |-> st, key |-> with_namespace_suffix(q, HEAD),
              call |-> IF c.tail = head
                       THEN [c EXCEPT !.head = head, !.pc = "idle", !.result = Ok(None)]
                       ELSE [c EXCEPT !.head = head, !.pc = "load"]]
    ELSE IF c.pc = "load"
    THEN LET loaded == Map_may_load(q.map, st, u32_key(c.head))
         IN  [store |-> st, key |-> Map_key(q.map, u32_key(c.head)),
              call |-> IF IsErr(loaded)
                       THEN [c EXCEPT !.pc = "idle", !.result = loaded]
                       ELSE [c EXCEPT !.got = loaded, !.pc = "inc"]]
    ELSE [store |-> inc_head(q, st, c.head).store, key |-> with_namespace_suffix(q, HEAD),
          call |-> [c EXCEPT !.pc = "idle", !.result = c.got]]

\* caller p enters push_back(store, &v)
BeginPush(p, v) ==
    /\ calls[p].pc = "idle"
    /\ Len(pushed) < MaxPushes
    /\ calls' = [calls EXCEPT ![p] = [IdleCall EXCEPT !.op = "push_back", !.pc = "tail",
                                                       !.arg = v]]
    /\ UNCHANGED <<store, queue, requested, model, ret, overflowed, pushed, popped, start,
                   map, path, shadow, touched>>

\* caller p enters pop_front(store)
BeginPop(p) ==
    /\ calls[p].pc = "idle"
    /\ calls' = [calls EXCEPT ![p] = [IdleCall EXCEPT !.op = "pop_front", !.pc = "tail"]]
    /\ UNCHANGED <<store, queue, requested, model, ret, overflowed, pushed, popped, start,
                   map, path, shadow, touched>>

\* the next store call of the push_back caller p is in
StepPush(p) ==
    /\ calls[p].op = "push_back"
    /\ calls[p].pc # "idle"
    /\ LET r == push_back_at(queue, store, calls[p])
       IN  /\ store' = r.store
           /\ calls' = [calls EXCEPT ![p] = r.call]
           /\ touched' = [touched EXCEPT !.queue = @ \cup {r.key}]
           /\ ret' = IF r.call.pc = "idle"
                     THEN [op |-> "push_back", arg |-> r.call.arg, result |-> r.call.result]
                     ELSE ret
           /\ pushed' = IF r.call.pc = "idle" /\ r.call.result = Ok(TRUE)
                        THEN Append(pushed, r.call.arg) ELSE pushed
    /\ UNCHANGED <<queue, requested, model, overflowed, popped, start, map, path, shadow>>

\* the next store call of the pop_front caller p is in
StepPop(p) ==
    /\ calls[p].op = "pop_front"
    /\ calls[p].pc # "idle"
    /\ LET r == pop_front_at(queue, store, calls[p])
       IN  /\ store' = r.store
           /\ calls' = [calls EXCEPT ![p] = r.call]
           /\ touched' = [touched EXCEPT !.queue = @ \cup {r.key}]
           /\ ret' = IF r.call.pc = "idle"
                     THEN [op |-> "pop_front", arg |-> 0, result |-> r.call.result]
                     ELSE ret
           /\ popped' = IF r.call.pc = "idle" /\ IsOk(r.call.result) /\ r.call.result # Ok(None)
                        THEN Append(popped, r.call.result[2][2]) ELSE popped
    /\ UNCHANGED <<queue, requested, model, overflowed, pushed, start, map, path, shadow>>

(***************************************************************************)
(* Two callers, each in one push_back on the same queue over the same      *)
(* store, their store calls interleaved in any order; when both have       *)
(* returned, pop_front calls drain the queue.                              *)
(***************************************************************************)
InitRace == \E n \in 1..MaxCapacity : InitQueue(U32Of(n))

AllIdle == \A p \in Callers : calls[p].pc = "idle"

NextRace ==
    \/ \E p \in Callers : \E v \in Values : calls[p].op = "none" /\ BeginPush(p, v)
    \/ \E p \in Callers : StepPush(p)
    \/ AllIdle /\ PopFront

SpecRace == InitRace /\ [][NextRace]_vars

(***************************************************************************)
(* C19: with the store calls of two push_back calls on one queue           *)
(* interleaved (each reads tail and head, writes the slot, then writes     *)
(* tail), a lost update is reachable: both calls return true, tail has     *)
(* advanced by one only, and one of the two values is overwritten and      *)
(* never popped.                                                           *)
(***************************************************************************)
\* both callers have returned true from a push_back that read the same tail
BothPushedAt(t) ==
    \A p \in Callers :
        /\ calls[p].op = "push_back"
        /\ calls[p].pc = "idle"
        /\ calls[p].result = Ok(TRUE)
        /\ calls[p].tail = t

C19_LostUpdate ==
    /\ \A t \in {U32Of(i) : i \in 0..MaxCapacity} :
          BothPushedAt(t) =>
              LET slot == Map_key(queue.map, u32_key(t))
              IN  /\ Len(pushed) = 2
                  \* tail is one past the tail both read, not two
                  /\ Queue_tail(queue, store) = inc_counter(queue, t).val
                  /\ NatOf(Queue_len(queue, store).val) + Len(popped) = 1
                  \* the slot holds one of the two values, and no other slot was written
                  /\ store[slot] \in {to_vec(calls[p].arg) : p \in Callers}
                  /\ DOMAIN store \cap SlotKeys = {slot}
                  \* only that value is ever popped
                  /\ Len(popped) <= 1
                  /\ popped # <<>> => to_vec(popped[1]) = store[slot]
    \* calls that did not read the same tail lose nothing
    /\ (AllIdle /\ Len(pushed) = 2 /\ calls["a"].tail # calls["b"].tail) =>
          /\ NatOf(Queue_len(queue, store).val) + Len(popped) = 2
          /\ popped = SubSeq(pushed, 1, Len(popped))

\* both push_back calls returned true, with the values 0 and 1; the queue has
\* given one value and then None: the other value was lost
C19_Witness ==
    /\ BothPushedAt(U32_ZERO)
    /\ calls["a"].arg # calls["b"].arg
    /\ Len(pushed) = 2
    /\ Len(popped) = 1
    /\ ret.op = "pop_front"
    /\ ret.result = Ok(None)
    /\ Queue_tail(queue, store) = Queue_head(queue, store)

(***************************************************************************)
(* One caller making push_back and pop_front calls, one store call at a    *)
(* time: every store state between two store calls is a state here.        *)
(***************************************************************************)
NextSteps ==
    \/ \E v \in Values : BeginPush("a", v)
    \/ StepPush("a")
    \/ BeginPop("a")
    \/ StepPop("a")

SpecSteps == InitRace /\ [][NextSteps]_vars

(***************************************************************************)
(* C20: push_back writes the element at slot tail before it writes the     *)
(* advanced tail, and pop_front reads the slot at head before it writes    *)
(* the advanced head; so in every store state between store calls, every   *)
(* slot in the ring from head forward to tail holds a value written by a   *)
(* push_back and not yet popped.                                           *)
(***************************************************************************)
\* the byte key of the slot i places after head in the ring
RingSlot(i) ==
    Map_key(queue.map,
            u32_key(U32Of((NatOf(Queue_head(queue, store)) + i) % NatOf(queue.capacity))))

C20_SlotBeforeCounter ==
    LET c == calls["a"]
    IN  /\ NatOf(Queue_len(queue, store).val) = Held
        /\ \A i \in 0..(Held - 1) :
              /\ RingSlot(i) \in DOMAIN store
              /\ store[RingSlot(i)] = to_vec(pushed[Len(popped) + 1 + i])
        \* between the slot write and the tail write: the slot holds the element
        /\ (c.op = "push_back" /\ c.pc = "inc") =>
              /\ Queue_tail(queue, store) = c.tail
              /\ Map_key(queue.map, u32_key(c.tail)) \in DOMAIN store
              /\ store[Map_key(queue.map, u32_key(c.tail))] = to_vec(c.arg)
              /\ Map_key(queue.map, u32_key(c.tail)) \in touched.queue
        \* before the slot write the tail has not moved
        /\ (c.op = "push_back" /\ c.pc = "save") => Queue_tail(queue, store) = c.tail
        \* between the slot read and the head write: the element is in hand
        /\ (c.op = "pop_front" /\ c.pc = "inc") =>
              /\ Queue_head(queue, store) = c.head
              /\ c.got = Ok(Some(pushed[Len(popped) + 1]))
              /\ Map_key(queue.map, u32_key(c.head)) \in touched.queue
        /\ (c.op = "pop_front" /\ c.pc = "load") => Queue_head(queue, store) = c.head

\* push_back has written its element over a slot popped earlier, and has not
\* yet written tail, while the queue holds an element
C20_Witness ==
    /\ calls["a"].op = "push_back"
    /\ calls["a"].pc = "inc"
    /\ Queue_tail(queue, store) = calls["a"].tail
    /\ store[Map_key(queue.map, u32_key(calls["a"].tail))] = to_vec(calls["a"].arg)
    /\ Held > 0
    /\ Len(popped) > NatOf(requested)
    /\ calls["a"].arg # popped[Len(popped) - NatOf(requested)]

(***************************************************************************)
(* A queue whose slots are also written from outside the Queue, as the     *)
(* test existence writes raw bytes under a Map key: bytes the codec cannot *)
(* parse, or the encoding of a value; and pushes of a value that does not  *)
(* serialize.                                                              *)
(***************************************************************************)
\* setup_queue(1) and setup_queue(2), the capacities of the invariant tests
InitCorrupt == InitQueue(U32Of(1)) \/ InitQueue(U32Of(2))

\* store.set(slot key of index i, bytes)
SetSlot(i, bytes) ==
    /\ store' = store_set(store, Map_key(queue.map, u32_key(U32Of(i))), bytes)
    /\ ret' = [op |-> "set_slot", arg |-> i, result |-> Ok(<<>>)]
    /\ UNCHANGED <<queue, requested, model, overflowed, pushed, popped, start, mvars, touched>>

NextCorrupt ==
    \/ \E v \in Values \cup {NotSerializable} : SharedPush(v)
    \/ SharedPop
    \/ \E i \in 0..(NatOf(queue.capacity) - 1) :
          \E bytes \in RawBytes \cup {to_vec(v) : v \in Values} : SetSlot(i, bytes)

SpecCorrupt == InitCorrupt /\ [][NextCorrupt]_vars

(***************************************************************************)
(* C21: when the bytes stored at slot head cannot be parsed, pop_front     *)
(* returns the ParseError and writes nothing: head, tail and len stay as   *)
(* they were, and every later pop_front fails the same way until the       *)
(* bytes of that slot are replaced; when the value does not serialize,     *)
(* push_back returns the error and leaves tail as it was.                  *)
(***************************************************************************)
\* the slot at head, and whether a pop_front would find bytes there it cannot parse
HeadSlot == Map_key(queue.map, u32_key(Queue_head(queue, store)))
HeadUnparseable ==
    /\ Queue_head(queue, store) # Queue_tail(queue, store)
    /\ HeadSlot \in DOMAIN store
    /\ IsErr(from_slice(store[HeadSlot]))

C21_ErrorsWriteNothing ==
    [][ /\ (ret'.op = "pop_front" /\ HeadUnparseable) =>
              /\ ret'.result = Err("ParseError")
              /\ store' = store
              /\ Queue_len(queue, store') = Queue_len(queue, store)
              /\ HeadUnparseable'
        /\ (ret'.op = "pop_front" /\ IsErr(ret'.result)) => (HeadUnparseable /\ store' = store)
        \* a push_back does not write the slot at head of a queue that holds elements
        /\ (ret'.op = "push_back" /\ HeadUnparseable) =>
              (HeadUnparseable' /\ store'[HeadSlot] = store[HeadSlot])
        /\ (ret'.op = "push_back" /\ ret'.arg = NotSerializable) =>
              /\ ret'.result = IF Queue_is_full(queue, store).val
                                THEN Ok(FALSE) ELSE Err("SerializeError")
              /\ store' = store
              /\ Queue_tail(queue, store') = Queue_tail(queue, store)
        /\ (ret'.op = "push_back" /\ IsErr(ret'.result)) =>
              (ret'.arg = NotSerializable /\ store' = store) ]_vars

\* pop_front has failed on unparseable bytes at slot head of a queue that
\* holds an element, and a pop_front from here fails again
C21_Witness ==
    /\ ret.op = "pop_front"
    /\ ret.result = Err("ParseError")
    /\ HeadUnparseable
    /\ store[HeadSlot] = RANDOM_DATA
    /\ Queue_len(queue, store).val # U32_ZERO
    /\ pop_front(queue, store, TRUE) = [store |-> store, result |-> Err("ParseError"),
                                         overflow |-> FALSE]

(***************************************************************************)
(* C22: pop_front returns None only when the queue is empty: in every      *)
(* state reached from the empty store by push_back and pop_front with      *)
(* head # tail, the slot at head is present, so pop_front returns          *)
(* Some(value), the value of the oldest push not yet popped, and it never  *)
(* advances head while returning None.                                     *)
(***************************************************************************)
C22_NoneOnlyWhenEmpty ==
    LET head == Queue_head(queue, store)
        tail == Queue_tail(queue, store)
        r == pop_front(queue, store, TRUE)
    IN  /\ head # tail =>
              /\ Held > 0
              /\ HeadSlot \in DOMAIN store
              /\ Map_may_load(queue.map, store, u32_key(head)) = Ok(Some(pushed[Len(popped) + 1]))
              /\ r.result = Ok(Some(pushed[Len(popped) + 1]))
              /\ Queue_head(queue, r.store) = inc_counter(queue, head).val
        /\ head = tail => (r.result = Ok(None) /\ r.store = store /\ Held = 0)
        /\ (ret.op = "pop_front" /\ ret.result = Ok(None)) =>
              (head = tail /\ NatOf(head) = Len(popped) % NatOf(queue.capacity))

\* invariant_cannot_pop_off_empty_queue: two pushes, two pops that gave the
\* values, and a pop that gave None with head where the second pop left it
C22_Witness ==
    /\ requested = U32Of(2)
    /\ ret.op = "pop_front"
    /\ ret.result = Ok(None)
    /\ Len(pushed) = 2
    /\ popped = pushed
    /\ Queue_head(queue, store) = U32Of(2)
    /\ Queue_tail(queue, store) = U32Of(2)

(***************************************************************************)
(* One caller that only calls push_back and one that only calls pop_front  *)
(* on the same queue, their store calls interleaved in any order.          *)
(***************************************************************************)
NextPair ==
    \/ \E v \in Values : BeginPush("a", v)
    \/ StepPush("a")
    \/ BeginPop("b")
    \/ StepPop("b")

SpecPair == InitRace /\ [][NextPair]_vars

(***************************************************************************)
(* C23: with one caller that only pushes and one that only pops, their     *)
(* store calls interleaved, head and tail stay in range, no value whose    *)
(* push returned true is lost or returned twice, and pop_front returns the *)
(* values in the order their pushes completed.                             *)
(***************************************************************************)
C23_OnePusherOnePopper ==
    /\ u32_lt(Queue_head(queue, store), queue.capacity)
    /\ u32_lt(Queue_tail(queue, store), queue.capacity)
    \* what was popped is the beginning of what was pushed, in that order
    /\ Len(popped) <= Len(pushed)
    /\ popped = SubSeq(pushed, 1, Len(popped))
    \* what was pushed and not popped is in the ring, in that order
    /\ NatOf(Queue_len(queue, store).val) = Held
    /\ Held <= NatOf(requested)
    /\ \A i \in 0..(Held - 1) :
          /\ RingSlot(i) \in DOMAIN store
          /\ store[RingSlot(i)] = to_vec(pushed[Len(popped) + 1 + i])
    \* a pop_front that has read its slot holds the oldest value not yet popped
    /\ (calls["b"].op = "pop_front" /\ calls["b"].pc = "inc") =>
          calls["b"].got = Ok(Some(pushed[Len(popped) + 1]))
    /\ ret.op = "push_back" => ret.result \in {Ok(TRUE), Ok(FALSE)}
    /\ (ret.op = "pop_front" /\ ret.result # Ok(None)) =>
          ret.result = Ok(Some(popped[Len(popped)]))

\* both callers are between their slot access and their counter write, the
\* pusher having read a head that the popper has advanced since
C23_Witness ==
    /\ calls["a"].op = "push_back"
    /\ calls["a"].pc = "inc"
    /\ calls["b"].op = "pop_front"
    /\ calls["b"].pc = "inc"
    /\ calls["a"].head # Queue_head(queue, store)
    /\ calls["b"].head = Queue_head(queue, store)
    /\ Len(popped) >= 2
    /\ store[Map_key(queue.map, u32_key(calls["a"].tail))] = to_vec(calls["a"].arg)

====
